---- MODULE Spec2Model ----
(***************************************************************************)
(* A model of plz-cli (GitAI): one run of the program in src/src/main.rs,   *)
(* from `main` to process exit, with the helper functions of git.rs,        *)
(* gitmoji.rs and prompts.rs as operators, and get_commit_changes of git.rs, *)
(* replace_gitmoji of gitmoji.rs and ChatCompletions::run of                 *)
(* chat_gpt/completions.rs as specifications of their own.                   *)
(*                                                                           *)
(* Text is a sequence of one-character strings.  Every external collaborator *)
(* (git, the completion endpoint, the operator at a gate, bash, the gitmoji  *)
(* resolver) is an input chosen with \E at the step that consumes it.        *)
(***************************************************************************)
EXTENDS Integers, Sequences, FiniteSets, TLC

VARIABLES
    cli,             \* Cli: [mode, gitmoji, force, token_limit]    main.rs:20-37
    config,          \* Config: [max_tokens]              completions.rs:11, 38
    mode,            \* Mode selected by main ("Unset" before)      main.rs:107-113
    pc,              \* position of the single thread of control
    changes,         \* commit_changes: Vec<String>                 main.rs:269
    request,         \* the JSON body handed to client.post, or None
    requests,        \* number of times send() was called
    response,        \* the Response validate_response looks at, or None
    code,            \* command mode: the generated command         main.rs:194
    commit_message,  \* commit mode: the generated message          main.rs:274
    new_message,     \* replace_gitmoji: the message being rewritten main.rs:405
    matches,         \* replace_gitmoji: Vec<Match>                 main.rs:408
    idx,             \* replace_gitmoji: index of the next match of the for loop
    commit_cmd,      \* commit mode: the assembled command, or None  main.rs:325
    displayed,       \* what PrettyPrinter printed, in order
    gateLog,         \* the gates answered, in order: [gate, answer]
    reasks,          \* unacceptable answers given at the current gate
    procs,           \* child processes launched, in order, with what came back
    history,         \* config.write_to_history calls
    console,         \* messages surfaced on the terminal, in order
    exit_status      \* process exit status, or None while running

vars == <<cli, config, mode, pc, changes, request, requests, response, code,
          commit_message, new_message, matches, idx, commit_cmd, displayed,
          gateLog, reasks, procs, history, console, exit_status>>

\* Option<T>: None, or Some(x)
None == <<>>
Some(x) == <<x>>
Get(o) == o[1]

----------------------------------------------------------------------------
(* Bounds of the model *)

\* A generated text is the concatenation of at most MaxTokens pieces.
MaxTokens == 3
\* An operator gives at most MaxReasks unacceptable answers at one gate.
MaxReasks == 1

----------------------------------------------------------------------------
(* Text *)

WordChars == {"a", "b"}
WhiteSpace == {" ", "\n"}

\* regex \w restricted to the model's alphabet
IsWordChar(c) == c \in WordChars

RECURSIVE Flatten(_)
Flatten(ss) == IF ss = <<>> THEN <<>> ELSE Head(ss) \o Flatten(Tail(ss))

\* str::trim: strips leading and trailing white space
RECURSIVE TrimStart(_)
TrimStart(s) ==
    IF s # <<>> /\ Head(s) \in WhiteSpace THEN TrimStart(Tail(s)) ELSE s

RECURSIVE TrimEnd(_)
TrimEnd(s) ==
    IF s # <<>> /\ s[Len(s)] \in WhiteSpace
    THEN TrimEnd(SubSeq(s, 1, Len(s) - 1)) ELSE s

trim(s) == TrimEnd(TrimStart(s))

\* whether `pat` occurs in s at position i
OccursAt(s, pat, i) ==
    /\ i >= 1
    /\ i + Len(pat) - 1 <= Len(s)
    /\ SubSeq(s, i, i + Len(pat) - 1) = pat

\* str::replace(from, to): every non-overlapping occurrence of `from`, found
\* left to right, is replaced by `to`.
RECURSIVE ReplaceFrom(_, _, _, _)
ReplaceFrom(s, from, to, i) ==
    IF i > Len(s) THEN <<>>
    ELSE IF OccursAt(s, from, i)
         THEN to \o ReplaceFrom(s, from, to, i + Len(from))
         ELSE <<s[i]>> \o ReplaceFrom(s, from, to, i + 1)

replace(s, from, to) ==
    IF from = <<>> THEN s ELSE ReplaceFrom(s, from, to, 1)

\* The end of the maximal run of word characters starting at i (i - 1 if
\* s[i] is not a word character).
RECURSIVE WordRunEnd(_, _)
WordRunEnd(s, i) ==
    IF i <= Len(s) /\ IsWordChar(s[i]) THEN WordRunEnd(s, i + 1) ELSE i - 1

\* Mutant: the pattern is :\w+ and asks for no closing colon.
MatchEnd_unclosed(s, i) ==
    IF i <= Len(s) /\ s[i] = ":"
    THEN LET e == WordRunEnd(s, i + 1)
         IN IF e >= i + 1 THEN e ELSE 0
    ELSE 0

\* Whether the pattern :\w+: matches at position i, and where it ends.
MatchEnd(s, i) ==
    IF i <= Len(s) /\ s[i] = ":"
    THEN LET e == WordRunEnd(s, i + 1)
         IN IF e >= i + 1 /\ e + 1 <= Len(s) /\ s[e + 1] = ":" THEN e + 1 ELSE 0
    ELSE 0

\* Regex::find_iter: the leftmost non-overlapping matches of :\w+:, in order.
\* A Match carries its span and its text (Match::start, end, as_str).
RECURSIVE FindFrom(_, _)
FindFrom(s, i) ==
    IF i > Len(s) THEN <<>>
    ELSE LET e == MatchEnd(s, i)
         IN IF e > 0
            THEN <<[start |-> i, end |-> e, str |-> SubSeq(s, i, e)]>>
                 \o FindFrom(s, e + 1)
            ELSE FindFrom(s, i + 1)

find_iter(s) == FindFrom(s, 1)

----------------------------------------------------------------------------
(* Inputs *)

\* The pieces generated texts are made of: two tags, a fragment that makes
\* two tags share a colon (":a:" \o "b:" = ":a:b:"), white space, a word.
Tokens ==
    { <<":", "a", ":">>, <<":", "b", ":">>, <<"b", ":">>, <<" ">>, <<"a">> }

RECURSIVE TokenSeqs(_)
TokenSeqs(n) ==
    IF n = 0 THEN {<<>>}
    ELSE LET shorter == TokenSeqs(n - 1)
         IN shorter \cup {Append(ts, t) : ts \in {x \in shorter : Len(x) = n - 1},
                                          t \in Tokens}

Texts == {Flatten(ts) : ts \in TokenSeqs(MaxTokens)}

\* What `git diff --cached` can print, as lines; the first line of a
\* non-empty diff is its header.
DiffOutputs ==
    { <<>>, <<"diff --git a/f b/f">>,
      <<"diff --git a/f b/f", "+ fix null check">>,
      <<"diff --git a/f b/f", "+ fix null check", "+ add test">> }

\* HTTP responses: a status and a JSON body.  A body is one of
\*   chat   {"choices":[{"message":{"content": payload}}]}
\*   legacy {"choices":[{"text": payload}]}
\*   error  {"error":{"message": payload}}
\*   other  anything else (not JSON, or none of the fields above)
ErrorMessages == { <<"invalid api key">>, <<"rate limit">> }

Responses ==
    [status : {200}, kind : {"chat", "legacy"}, payload : Texts]
    \cup [status : {200, 302, 404, 500}, kind : {"other"}, payload : {<<>>}]
    \cup [status : {401, 404, 500, 503}, kind : {"error"}, payload : ErrorMessages]

\* What the operator can type at a gate.
GateInputs == {"y", "n", "", "maybe"}

\* What a child bash can come back with: it could not be launched, or it ran
\* and ended with a status, its output captured.
ShellOutcomes ==
    { [spawned |-> FALSE, success |-> FALSE, stdout |-> <<>>, stderr |-> <<>>],
      [spawned |-> TRUE, success |-> TRUE, stdout |-> <<"out">>, stderr |-> <<>>],
      [spawned |-> TRUE, success |-> FALSE, stdout |-> <<>>, stderr |-> <<"err">>] }

\* What `bash -c "gitmoji -s <tag> | awk '{print $1}'"` can print: nothing
\* (no match, or gitmoji is not installed), an empty line, a glyph, or a
\* fragment that is not a glyph.  "G" and "H" stand for emoji: they are
\* neither word characters nor colons.
ResolverStdouts ==
    { <<>>, <<"\n">>, <<"G", "\n">>, <<"H", "\n">>, <<":", "b", "\n">> }

\* The child bash of a lookup: it could not be launched; or it ran with
\* gitmoji at hand and printed one of the outputs above; or it ran and found
\* no gitmoji program to run ("command not found" goes to stderr, awk gets
\* no input and prints nothing).
ResolverOutcomes ==
    [spawned : {TRUE}, available : {TRUE}, stdout : ResolverStdouts]
    \cup { [spawned |-> FALSE, available |-> TRUE, stdout |-> <<>>],
           [spawned |-> TRUE, available |-> FALSE, stdout |-> <<>>] }

----------------------------------------------------------------------------
(* Pure functions of the program *)

\* Mutant: the mode string is matched without regard to case.
select_mode_any_case(m) ==
    IF m \in {"commit", "Commit"} THEN "Commit" ELSE "Command"

\* main.rs:107-113 (and ChatCompletions::new): the mode of the run
select_mode(m) ==
    IF m = "commit" THEN "Commit" ELSE "Command"

\* main.rs:56-66: the staged diff as change lines, or the early exit
get_commit_changes(stdout) ==
    IF stdout = <<>>
    THEN [kind |-> "exit", status |-> 0, changes |-> <<>>]
    ELSE [kind |-> "ok", status |-> 0, changes |-> Tail(stdout)]

\* git.rs:14-24: the same, as an Option
git_get_commit_changes(stdout) ==
    IF stdout = <<>>
    THEN [some |-> FALSE, changes |-> <<>>]
    ELSE [some |-> TRUE, changes |-> Tail(stdout)]

\* main.rs:138-144
build_cmd_prompt(prompt, os_hint) ==
    [system |-> <<"system">>,
     user |-> prompt \o os_hint \o <<":\n", "bash fence", "\n", "shebang", "\n">>]

\* main.rs:146-164
RECURSIVE PushLines(_, _)
PushLines(user_prompt, lines) ==
    IF lines = <<>> THEN user_prompt
    ELSE PushLines(user_prompt \o <<Head(lines), "\n">>, Tail(lines))

\* Mutant: the change lines are pushed last to first.
build_commit_prompt_reversed(chgs, gitmoji) ==
    [system |-> <<"commit system prompt">>
                \o (IF gitmoji THEN <<" (using gitmoji)">> ELSE <<>>)
                \o <<"commit format hint">>,
     user |-> PushLines(<<"Provide a commit message for the following changes:\n">>,
                        [i \in 1..Len(chgs) |-> chgs[Len(chgs) + 1 - i]])]

\* prompts.rs:71-83: the user prompt of commit mode, with its optional hint
get_commit_user_prompt(chgs, hint) ==
    PushLines((IF hint # None THEN <<"Hint: ", Get(hint)>> ELSE <<>>)
              \o <<"Provide a commit message for the following changes:\n">>,
              chgs)

build_commit_prompt(chgs, gitmoji) ==
    [system |-> <<"commit system prompt">>
                \o (IF gitmoji THEN <<" (using gitmoji)">> ELSE <<>>)
                \o <<"commit format hint">>,
     user |-> PushLines(<<"Provide a commit message for the following changes:\n">>,
                        chgs)]

\* main.rs:16
MAX_TOKENS == 100

\* Mutant: the --token-limit of the operator is not looked at.
max_tokens_fixed(token_limit) == MAX_TOKENS

\* main.rs:77: cli.token_limit.unwrap_or(MAX_TOKENS), whatever the mode
max_tokens(token_limit) ==
    IF token_limit = None THEN MAX_TOKENS ELSE Get(token_limit)

\* completions.rs:38: self.cli.token_limit.unwrap_or(self.config.max_tokens)
completions_max_tokens(token_limit, config_max_tokens) ==
    IF token_limit = None THEN config_max_tokens ELSE Get(token_limit)

\* prompts.rs:66-69: the user prompt of command mode
get_cmd_user_prompt(prompt, os_hint) == prompt \o os_hint \o <<":\n">>

\* main.rs:79-93: what the request body says of the prompts and the cap
request_body(prompts, token_limit) ==
    [system |-> prompts.system, user |-> prompts.user,
     max_tokens |-> max_tokens(token_limit)]

\* Mutant: 500 itself is not taken for a server error.
is_server_error_above_500(status) == status > 500 /\ status <= 599

\* main.rs:179: {status_code} is StatusCode's Display: the number, a space,
\* and the canonical reason of the status (the registered statuses of the
\* http crate), or "<unknown status code>".
canonical_reason(status) ==
    CASE status = 100 -> "Continue"
      [] status = 101 -> "Switching Protocols"
      [] status = 102 -> "Processing"
      [] status = 200 -> "OK"
      [] status = 201 -> "Created"
      [] status = 202 -> "Accepted"
      [] status = 203 -> "Non Authoritative Information"
      [] status = 204 -> "No Content"
      [] status = 205 -> "Reset Content"
      [] status = 206 -> "Partial Content"
      [] status = 207 -> "Multi-Status"
      [] status = 208 -> "Already Reported"
      [] status = 226 -> "IM Used"
      [] status = 300 -> "Multiple Choices"
      [] status = 301 -> "Moved Permanently"
      [] status = 302 -> "Found"
      [] status = 303 -> "See Other"
      [] status = 304 -> "Not Modified"
      [] status = 305 -> "Use Proxy"
      [] status = 307 -> "Temporary Redirect"
      [] status = 308 -> "Permanent Redirect"
      [] status = 400 -> "Bad Request"
      [] status = 401 -> "Unauthorized"
      [] status = 402 -> "Payment Required"
      [] status = 403 -> "Forbidden"
      [] status = 404 -> "Not Found"
      [] status = 405 -> "Method Not Allowed"
      [] status = 406 -> "Not Acceptable"
      [] status = 407 -> "Proxy Authentication Required"
      [] status = 408 -> "Request Timeout"
      [] status = 409 -> "Conflict"
      [] status = 410 -> "Gone"
      [] status = 411 -> "Length Required"
      [] status = 412 -> "Precondition Failed"
      [] status = 413 -> "Payload Too Large"
      [] status = 414 -> "URI Too Long"
      [] status = 415 -> "Unsupported Media Type"
      [] status = 416 -> "Range Not Satisfiable"
      [] status = 417 -> "Expectation Failed"
      [] status = 418 -> "I'm a teapot"
      [] status = 421 -> "Misdirected Request"
      [] status = 422 -> "Unprocessable Entity"
      [] status = 423 -> "Locked"
      [] status = 424 -> "Failed Dependency"
      [] status = 426 -> "Upgrade Required"
      [] status = 428 -> "Precondition Required"
      [] status = 429 -> "Too Many Requests"
      [] status = 431 -> "Request Header Fields Too Large"
      [] status = 451 -> "Unavailable For Legal Reasons"
      [] status = 500 -> "Internal Server Error"
      [] status = 501 -> "Not Implemented"
      [] status = 502 -> "Bad Gateway"
      [] status = 503 -> "Service Unavailable"
      [] status = 504 -> "Gateway Timeout"
      [] status = 505 -> "HTTP Version Not Supported"
      [] status = 506 -> "Variant Also Negotiates"
      [] status = 507 -> "Insufficient Storage"
      [] status = 508 -> "Loop Detected"
      [] status = 510 -> "Not Extended"
      [] status = 511 -> "Network Authentication Required"
      [] OTHER -> "<unknown status code>"

status_code_display(status) == <<ToString(status), " ", canonical_reason(status)>>

\* StatusCode::is_client_error / is_server_error
is_client_error(status) == status >= 400 /\ status <= 499
is_server_error(status) == status >= 500 /\ status <= 599

\* Mutant: a server error sends the caller back to the request.
validate_response_retry(r) ==
    IF is_client_error(r.status)
    THEN IF r.kind = "error"
         THEN [kind |-> "exit", status |-> 1, next |-> "Failed",
               msg |-> <<"API error: \"">> \o r.payload \o <<"\"">>]
         ELSE [kind |-> "exit", status |-> 101, next |-> "Failed",
               msg |-> <<"panic: unwrap">>]
    ELSE IF is_server_error(r.status)
         THEN [kind |-> "return", status |-> 0, next |-> "get_ai_response",
               msg |-> <<>>]
         ELSE [kind |-> "return", status |-> 0, next |-> "extract", msg |-> <<>>]

\* main.rs:166-186 (and ChatCompletions::validate_response): what becomes of
\* a response: the process exits with a message, or the function returns
\* and its caller goes on (next) to take the artifact out of the body.  A
\* 4xx body without error.message makes unwrap() panic.
validate_response(r) ==
    IF is_client_error(r.status)
    THEN IF r.kind = "error"
         THEN [kind |-> "exit", status |-> 1, next |-> "Failed",
               msg |-> <<"API error: \"">> \o r.payload \o <<"\"">>]
         ELSE [kind |-> "exit", status |-> 101, next |-> "Failed",
               msg |-> <<"panic: unwrap">>]
    ELSE IF is_server_error(r.status)
         THEN [kind |-> "exit", status |-> 1, next |-> "Failed",
               msg |-> <<"OpenAI is currently experiencing problems. Status code: ">>
                       \o status_code_display(r.status)]
         ELSE [kind |-> "return", status |-> 0, next |-> "extract", msg |-> <<>>]

\* main.rs:194-198: command mode reads choices[0].text
extract_code(r) ==
    IF r.kind = "legacy"
    THEN [kind |-> "ok", text |-> trim(r.payload)]
    ELSE [kind |-> "panic", text |-> <<>>]

\* main.rs:274-279 (and ChatCompletions::run): choices[0].message.content
extract_commit_message(r) ==
    IF r.kind = "chat"
    THEN [kind |-> "ok", text |-> trim(r.payload)]
    ELSE [kind |-> "panic", text |-> <<>>]

\* Mutant: a lookup that could not be launched gives an empty glyph.
get_gitmojis_lenient(tag, o) ==
    IF ~o.spawned \/ o.stdout = <<>>
    THEN [kind |-> "ok", status |-> 0, glyph |-> <<>>, msg |-> <<>>]
    ELSE [kind |-> "ok", status |-> 0, glyph |-> trim(o.stdout), msg |-> <<>>]

\* main.rs:381-402: the glyph of a tag, or the end of the process
get_gitmojis(tag, o) ==
    IF ~o.spawned
    THEN [kind |-> "exit", status |-> 1, glyph |-> <<>>,
          msg |-> <<"Failed to execute gitmoji.">>]
    ELSE IF o.stdout = <<>>
         THEN [kind |-> "exit", status |-> 1, glyph |-> <<>>,
               msg |-> <<"No gitmojis found.">>]
         ELSE [kind |-> "ok", status |-> 0, glyph |-> trim(o.stdout), msg |-> <<>>]

\* gitmoji.rs:4-23: the same, but a tag without glyph comes back as itself
gitmoji_get_gitmojis(tag, o) ==
    IF ~o.spawned
    THEN [kind |-> "exit", status |-> 1, glyph |-> <<>>,
          msg |-> <<"Failed to execute gitmoji.">>]
    ELSE IF o.stdout = <<>>
         THEN [kind |-> "ok", status |-> 0, glyph |-> tag,
               msg |-> <<"No gitmojis found for tag ", tag>>]
         ELSE [kind |-> "ok", status |-> 0, glyph |-> trim(o.stdout), msg |-> <<>>]

\* Mutant: the glyph is spliced in at the span of the match (the span is
\* one of the message as it was when the matches were found).
replace_step_at_span(msg, m, gitmoji) ==
    IF gitmoji = <<>> THEN msg
    ELSE SubSeq(msg, 1, IF m.start - 1 <= Len(msg) THEN m.start - 1 ELSE Len(msg))
         \o gitmoji \o SubSeq(msg, m.end + 1, Len(msg))

\* main.rs:415-421 (gitmoji.rs:36-42): the body of the for loop, after the
\* lookup: an empty glyph skips the tag, any other replaces every occurrence.
replace_step(msg, m, gitmoji) ==
    IF gitmoji = <<>> THEN msg ELSE replace(msg, m.str, gitmoji)

\* get_gitmojis as main.rs or as gitmoji.rs has it
lookup(src, tag, o) ==
    IF src = "main.rs" THEN get_gitmojis(tag, o) ELSE gitmoji_get_gitmojis(tag, o)

\* main.rs:414-423 (gitmoji.rs:35-44): the for loop over a list of matches ms,
\* with a resolver R that gives each tag the output of its lookup
RECURSIVE replace_loop(_, _, _, _)
replace_loop(src, msg, ms, R) ==
    IF ms = <<>> THEN [kind |-> "ok", text |-> msg]
    ELSE LET g == lookup(src, Head(ms).str, R[Head(ms).str])
         IN IF g.kind = "exit"
            THEN [kind |-> "exit", text |-> <<>>]
            ELSE replace_loop(src, replace_step(msg, Head(ms), g.glyph), Tail(ms), R)

\* main.rs:404-424 (gitmoji.rs:25-45)
replace_gitmoji(src, commit_msg, R) ==
    LET ms == find_iter(commit_msg)
    IN IF ms = <<>> THEN [kind |-> "ok", text |-> commit_msg]
       ELSE replace_loop(src, commit_msg, ms, R)

\* Mutant: the message is put between double quotes.
build_commit_cmd_double_quoted(msg) == <<"git commit -m \"">> \o msg \o <<"\"">>

\* main.rs:325-327
build_commit_cmd(msg) == <<"git commit -m '">> \o msg \o <<"'">>

\* Mutant: the answer of the gate is not looked at.
should_run_unasked(force, answer) == TRUE

\* main.rs:212-227: the force flag stands in for the answer
should_run(force, answer) == IF force THEN TRUE ELSE answer = "YES"

\* Mutant: the first gate of commit mode passes on any answer.
accept_commit_any(answer) == answer \in {"YES", "NO"}

\* Mutant: the second gate of commit mode passes on any answer.
generate_commit_cmd_any(answer) == answer \in {"YES", "NO"}

\* main.rs:297-308, 311-322, 336-347: the three answers of commit mode
accept_commit(answer) == answer = "YES"
generate_commit_cmd(answer) == answer = "YES"
commit_should_run(answer) == answer = "YES"

\* Mutant: no line the operator types is acceptable.
ask_nothing_acceptable(input) == "AGAIN"

\* Question::yes_no().until_acceptable().default(Answer::YES).ask(): an
\* empty line is the default, anything but yes/no is asked again.
ask(input) ==
    IF input \in {"y", ""} THEN "YES"
    ELSE IF input = "n" THEN "NO" ELSE "AGAIN"

----------------------------------------------------------------------------
(* The run *)

Terminal == {"Done", "Failed"}

\* main.rs:28-36: what the operator can pass as --mode (its default is the
\* string "default") and as --token-limit.  The Config of a run comes from
\* the configuration file; main.rs reads its api_base and api_key only,
\* ChatCompletions::run also its max_tokens.
CliModes == {"commit", "command", "default", "Commit"}
TokenLimits == {None, Some(64)}

\* The request the operator typed (cli.prompt joined) and hint_os() of the build.
CliPrompt == <<"list files">>
OsHint == <<" (on Linux)">>

\* A child process that was launched (or could not be), with what came back
\* of it: whether the program it was to run was there, its exit status
\* (output.status.success()) and its captured stdout.
Proc(kind, arg, o) ==
    [kind |-> kind, arg |-> arg, spawned |-> o.spawned, stdout |-> o.stdout,
     available |-> IF "available" \in DOMAIN o THEN o.available ELSE TRUE,
     success |-> IF "success" \in DOMAIN o THEN o.success ELSE o.spawned]

Init ==
    /\ cli \in [mode : CliModes, gitmoji : BOOLEAN, force : BOOLEAN,
                token_limit : TokenLimits]
    /\ config = [max_tokens |-> 1000]
    /\ mode = "Unset"
    /\ pc = "main"
    /\ changes = <<>>
    /\ request = None
    /\ requests = 0
    /\ response = None
    /\ code = None
    /\ commit_message = None
    /\ new_message = <<>>
    /\ matches = <<>>
    /\ idx = 0
    /\ commit_cmd = None
    /\ displayed = <<>>
    /\ gateLog = <<>>
    /\ reasks = 0
    /\ procs = <<>>
    /\ history = <<>>
    /\ console = <<>>
    /\ exit_status = None

\* std::process::exit(status) after printing msg; falling off the end of
\* main is Exit(0, ...).  A panic ends the process with status 101.
Exit(status, msg) ==
    /\ pc' = IF status = 0 THEN "Done" ELSE "Failed"
    /\ exit_status' = Some(status)
    /\ console' = Append(console, msg)

\* main.rs:100-125
Main ==
    /\ pc = "main"
    /\ mode' = select_mode(cli.mode)
    /\ pc' = IF mode' = "Command" THEN "get_ai_response" ELSE "get_commit_changes"
    /\ UNCHANGED <<cli, config, changes, request, requests, response, code,
                   commit_message, new_message, matches, idx, commit_cmd,
                   displayed, gateLog, reasks, procs, history, console,
                   exit_status>>

\* main.rs:44-67, called at main.rs:269
GetCommitChanges ==
    /\ pc = "get_commit_changes"
    /\ \E o \in [spawned : {TRUE}, stdout : DiffOutputs]
               \cup {[spawned |-> FALSE, stdout |-> <<>>]} :
          /\ procs' = Append(procs, Proc("git", <<"diff --cached">>, o))
          /\ IF ~o.spawned
             THEN /\ Exit(1, <<"Failed to execute git diff.">>)
                  /\ UNCHANGED changes
             ELSE LET r == get_commit_changes(o.stdout)
                  IN IF r.kind = "exit"
                     THEN /\ Exit(r.status, <<"No changes to commit.">>)
                          /\ UNCHANGED changes
                     ELSE /\ changes' = r.changes
                          /\ pc' = "get_ai_response"
                          /\ UNCHANGED <<console, exit_status>>
    /\ UNCHANGED <<cli, config, mode, request, requests, response, code,
                   commit_message, new_message, matches, idx, commit_cmd,
                   displayed, gateLog, reasks, history>>

\* main.rs:69-98, called at main.rs:190-191 and main.rs:270-271: the prompt
\* is built and the one request is sent; send() fails when the endpoint
\* cannot be reached, and unwrap() panics.
GetAiResponse ==
    /\ pc = "get_ai_response"
    /\ request' = Some(request_body(IF mode = "Command"
                                    THEN build_cmd_prompt(CliPrompt, OsHint)
                                    ELSE build_commit_prompt(changes, cli.gitmoji),
                                    cli.token_limit))
    /\ requests' = requests + 1
    /\ \/ /\ Exit(101, <<"panic: send">>)
          /\ UNCHANGED response
       \/ \E o \in Responses :
             /\ response' = Some(o)
             /\ pc' = "validate_response"
             /\ UNCHANGED <<console, exit_status>>
    /\ UNCHANGED <<cli, config, mode, changes, code, commit_message, new_message,
                   matches, idx, commit_cmd, displayed, gateLog, reasks, procs,
                   history>>

\* main.rs:166-186, called at main.rs:192 and main.rs:272
ValidateResponse ==
    /\ pc = "validate_response"
    /\ LET v == validate_response(Get(response))
       IN IF v.kind = "return"
          THEN /\ pc' = v.next
               /\ UNCHANGED <<console, exit_status>>
          ELSE Exit(v.status, v.msg)
    /\ UNCHANGED <<cli, config, mode, changes, request, requests, response, code,
                   commit_message, new_message, matches, idx, commit_cmd,
                   displayed, gateLog, reasks, procs, history>>

\* main.rs:194-198: command mode takes the artifact out of the body
ExtractCode ==
    /\ pc = "extract"
    /\ mode = "Command"
    /\ LET e == extract_code(Get(response))
       IN IF e.kind = "ok"
          THEN /\ code' = Some(e.text)
               /\ pc' = "display"
               /\ UNCHANGED <<console, exit_status>>
          ELSE /\ Exit(101, <<"panic: unwrap">>)
               /\ UNCHANGED code
    /\ UNCHANGED <<cli, config, mode, changes, request, requests, response,
                   commit_message, new_message, matches, idx, commit_cmd,
                   displayed, gateLog, reasks, procs, history>>

\* main.rs:274-283: commit mode takes the artifact out of the body, and
\* goes on to replace_gitmoji when the flag is set
ExtractCommitMessage ==
    /\ pc = "extract"
    /\ mode = "Commit"
    /\ LET e == extract_commit_message(Get(response))
       IN IF e.kind = "ok"
          THEN /\ commit_message' = Some(e.text)
               /\ pc' = IF cli.gitmoji THEN "replace_gitmoji" ELSE "display"
               /\ UNCHANGED <<console, exit_status>>
          ELSE /\ Exit(101, <<"panic: unwrap">>)
               /\ UNCHANGED commit_message
    /\ UNCHANGED <<cli, config, mode, changes, request, requests, response, code,
                   new_message, matches, idx, commit_cmd, displayed, gateLog,
                   reasks, procs, history>>

\* main.rs:404-412: replace_gitmoji up to its for loop
ReplaceGitmoji ==
    /\ pc = "replace_gitmoji"
    /\ new_message' = Get(commit_message)
    /\ matches' = find_iter(Get(commit_message))
    /\ IF matches' = <<>>
       THEN /\ pc' = "display"
            /\ idx' = 0
       ELSE /\ pc' = "get_gitmojis"
            /\ idx' = 1
    /\ UNCHANGED <<cli, config, mode, changes, request, requests, response, code,
                   commit_message, commit_cmd, displayed, gateLog, reasks,
                   procs, history, console, exit_status>>

\* main.rs:414-423: one turn of the for loop: the lookup of matches[idx]
\* (get_gitmojis, main.rs:381-402) and the replacement; after the last turn
\* replace_gitmoji returns and main.rs:282 assigns commit_message.
GetGitmojis ==
    /\ pc = "get_gitmojis"
    /\ \E o \in ResolverOutcomes :
          LET m == matches[idx]
              g == get_gitmojis(m.str, o)
          IN /\ procs' = Append(procs, Proc("gitmoji", m.str, o))
             /\ IF g.kind = "exit"
                THEN /\ Exit(g.status, g.msg)
                     /\ UNCHANGED <<new_message, commit_message, idx>>
                ELSE /\ new_message' = replace_step(new_message, m, g.glyph)
                     /\ IF idx = Len(matches)
                        THEN /\ commit_message' = Some(new_message')
                             /\ pc' = "display"
                             /\ UNCHANGED idx
                        ELSE /\ idx' = idx + 1
                             /\ pc' = "get_gitmojis"
                             /\ UNCHANGED commit_message
                     /\ UNCHANGED <<console, exit_status>>
    /\ UNCHANGED <<cli, config, mode, changes, request, requests, response, code,
                   matches, commit_cmd, displayed, gateLog, reasks, history>>

\* main.rs:200-210 and main.rs:285-295: the artifact is shown
Display ==
    /\ pc = "display"
    /\ displayed' = Append(displayed,
                           Get(IF mode = "Command" THEN code ELSE commit_message))
    /\ pc' = IF mode = "Command" THEN "confirm_run" ELSE "gate_accept"
    /\ UNCHANGED <<cli, config, mode, changes, request, requests, response, code,
                   commit_message, new_message, matches, idx, commit_cmd,
                   gateLog, reasks, procs, history, console, exit_status>>

\* One gate: Question::new(..).yes_no().until_acceptable()
\* .default(Answer::YES).ask().  An unacceptable line asks again.
Asked(gate, input) == [gate |-> gate, answer |-> ask(input)]

\* main.rs:212-227 with the force flag: no gate, should_run is true
ForceRun ==
    /\ pc = "confirm_run"
    /\ cli.force
    /\ pc' = IF should_run(cli.force, "NONE") THEN "run" ELSE "Done"
    /\ exit_status' = IF pc' = "Done" THEN Some(0) ELSE exit_status
    /\ UNCHANGED <<cli, config, mode, changes, request, requests, response, code,
                   commit_message, new_message, matches, idx, commit_cmd,
                   displayed, gateLog, reasks, procs, history, console>>

\* main.rs:212-229 without it: the gate "Run the generated program?"
GateRun ==
    /\ pc = "confirm_run"
    /\ ~cli.force
    /\ \E input \in GateInputs :
          LET a == Asked("run", input)
          IN IF a.answer = "AGAIN"
             THEN /\ reasks < MaxReasks
                  /\ reasks' = reasks + 1
                  /\ UNCHANGED <<pc, gateLog, exit_status>>
             ELSE /\ reasks' = 0
                  /\ gateLog' = Append(gateLog, a)
                  /\ pc' = IF should_run(cli.force, a.answer) THEN "run" ELSE "Done"
                  /\ exit_status' = IF pc' = "Done" THEN Some(0) ELSE exit_status
    /\ UNCHANGED <<cli, config, mode, changes, request, requests, response, code,
                   commit_message, new_message, matches, idx, commit_cmd,
                   displayed, procs, history, console>>

\* What the shell's outcome makes of the run (main.rs:233-259, 351-375):
\* the message surfaced and the exit status.  Command mode prints the
\* captured stdout after its success message, commit mode does not.
shell_report(o, ok_msg, print_stdout) ==
    IF ~o.spawned
    THEN [status |-> 1, msg |-> <<"Failed to execute the generated program.">>]
    ELSE IF ~o.success
         THEN [status |-> 1, msg |-> <<"The program threw an error.">> \o o.stderr]
         ELSE [status |-> 0,
               msg |-> <<ok_msg>> \o (IF print_stdout THEN o.stdout ELSE <<>>)]

\* main.rs:229-260: the history entry, then bash -c <code>
RunCommand ==
    /\ pc = "run"
    /\ mode = "Command"
    /\ history' = Append(history, Get(code))
    /\ \E o \in ShellOutcomes :
          LET r == shell_report(o, "Command ran successfully", TRUE)
          IN /\ procs' = Append(procs, Proc("run", Get(code), o))
             /\ Exit(r.status, r.msg)
    /\ UNCHANGED <<cli, config, mode, changes, request, requests, response, code,
                   commit_message, new_message, matches, idx, commit_cmd,
                   displayed, gateLog, reasks>>

\* main.rs:297-310: the gate "Accept the generated commit?"
GateAccept ==
    /\ pc = "gate_accept"
    /\ \E input \in GateInputs :
          LET a == Asked("accept", input)
          IN IF a.answer = "AGAIN"
             THEN /\ reasks < MaxReasks
                  /\ reasks' = reasks + 1
                  /\ UNCHANGED <<pc, gateLog, exit_status>>
             ELSE /\ reasks' = 0
                  /\ gateLog' = Append(gateLog, a)
                  /\ pc' = IF accept_commit(a.answer) THEN "gate_generate" ELSE "Done"
                  /\ exit_status' = IF pc' = "Done" THEN Some(0) ELSE exit_status
    /\ UNCHANGED <<cli, config, mode, changes, request, requests, response, code,
                   commit_message, new_message, matches, idx, commit_cmd,
                   displayed, procs, history, console>>

\* main.rs:311-334: the gate "Generate a commit with the generated
\* message?"; on YES the command is assembled and shown
GateGenerate ==
    /\ pc = "gate_generate"
    /\ \E input \in GateInputs :
          LET a == Asked("generate", input)
          IN IF a.answer = "AGAIN"
             THEN /\ reasks < MaxReasks
                  /\ reasks' = reasks + 1
                  /\ UNCHANGED <<pc, gateLog, exit_status, commit_cmd, displayed>>
             ELSE /\ reasks' = 0
                  /\ gateLog' = Append(gateLog, a)
                  /\ IF generate_commit_cmd(a.answer)
                     THEN /\ commit_cmd' = Some(build_commit_cmd(Get(commit_message)))
                          /\ displayed' = Append(displayed, Get(commit_cmd'))
                          /\ pc' = "gate_run_commit"
                          /\ UNCHANGED exit_status
                     ELSE /\ pc' = "Done"
                          /\ exit_status' = Some(0)
                          /\ UNCHANGED <<commit_cmd, displayed>>
    /\ UNCHANGED <<cli, config, mode, changes, request, requests, response, code,
                   commit_message, new_message, matches, idx, procs, history,
                   console>>

\* main.rs:336-349: the gate "Run the generated commit?"
GateRunCommit ==
    /\ pc = "gate_run_commit"
    /\ \E input \in GateInputs :
          LET a == Asked("run_commit", input)
          IN IF a.answer = "AGAIN"
             THEN /\ reasks < MaxReasks
                  /\ reasks' = reasks + 1
                  /\ UNCHANGED <<pc, gateLog, exit_status>>
             ELSE /\ reasks' = 0
                  /\ gateLog' = Append(gateLog, a)
                  /\ pc' = IF commit_should_run(a.answer) THEN "run" ELSE "Done"
                  /\ exit_status' = IF pc' = "Done" THEN Some(0) ELSE exit_status
    /\ UNCHANGED <<cli, config, mode, changes, request, requests, response, code,
                   commit_message, new_message, matches, idx, commit_cmd,
                   displayed, procs, history, console>>

\* main.rs:349-376: bash -c <commit_cmd>
RunCommit ==
    /\ pc = "run"
    /\ mode = "Commit"
    /\ \E o \in ShellOutcomes :
          LET r == shell_report(o, "Commit generated successfully", FALSE)
          IN /\ procs' = Append(procs, Proc("run", Get(commit_cmd), o))
             /\ Exit(r.status, r.msg)
    /\ UNCHANGED <<cli, config, mode, changes, request, requests, response, code,
                   commit_message, new_message, matches, idx, commit_cmd,
                   displayed, gateLog, reasks, history>>

Next ==
    \/ Main
    \/ GetCommitChanges
    \/ GetAiResponse
    \/ ValidateResponse
    \/ ExtractCode
    \/ ExtractCommitMessage
    \/ ReplaceGitmoji
    \/ GetGitmojis
    \/ Display
    \/ ForceRun
    \/ GateRun
    \/ RunCommand
    \/ GateAccept
    \/ GateGenerate
    \/ GateRunCommit
    \/ RunCommit

Spec == Init /\ [][Next]_vars

\* The program is one thread of blocking calls: as long as the remote call
\* and the child processes return and the operator answers, it takes its
\* next step.  An operator who has typed MaxReasks unacceptable lines at a
\* gate types an acceptable one next.
FairSpec == Spec /\ WF_vars(Next)

----------------------------------------------------------------------------
(* replace_gitmoji as gitmoji.rs has it, called on a commit message.  The
   main of this layout is not part of the sources: the message is the
   argument, new_message the value returned to the caller. *)

GitmojiInit ==
    /\ cli = [mode |-> "commit", gitmoji |-> TRUE, force |-> FALSE,
              token_limit |-> None]
    /\ config = [max_tokens |-> 1000]
    /\ mode = "Commit"
    /\ pc = "gitmoji.rs:replace_gitmoji"
    /\ commit_message \in {Some(trim(t)) : t \in Texts}
    /\ changes = <<>>
    /\ request = None
    /\ requests = 0
    /\ response = None
    /\ code = None
    /\ new_message = <<>>
    /\ matches = <<>>
    /\ idx = 0
    /\ commit_cmd = None
    /\ displayed = <<>>
    /\ gateLog = <<>>
    /\ reasks = 0
    /\ procs = <<>>
    /\ history = <<>>
    /\ console = <<>>
    /\ exit_status = None

\* gitmoji.rs:25-33: replace_gitmoji up to its for loop
GitmojiReplaceGitmoji ==
    /\ pc = "gitmoji.rs:replace_gitmoji"
    /\ new_message' = Get(commit_message)
    /\ matches' = find_iter(Get(commit_message))
    /\ IF matches' = <<>>
       THEN /\ pc' = "gitmoji.rs:returned"
            /\ idx' = 0
       ELSE /\ pc' = "gitmoji.rs:get_gitmojis"
            /\ idx' = 1
    /\ UNCHANGED <<cli, config, mode, changes, request, requests, response, code,
                   commit_message, commit_cmd, displayed, gateLog, reasks,
                   procs, history, console, exit_status>>

\* gitmoji.rs:35-44: one turn of the for loop: the lookup of matches[idx]
\* (get_gitmojis, gitmoji.rs:4-23, which prints a line when it finds no
\* glyph) and the replacement; after the last turn new_message is returned.
GitmojiGetGitmojis ==
    /\ pc = "gitmoji.rs:get_gitmojis"
    /\ \E o \in ResolverOutcomes :
          LET m == matches[idx]
              g == gitmoji_get_gitmojis(m.str, o)
          IN /\ procs' = Append(procs, Proc("gitmoji", m.str, o))
             /\ IF g.kind = "exit"
                THEN /\ Exit(g.status, g.msg)
                     /\ UNCHANGED <<new_message, idx>>
                ELSE /\ new_message' = replace_step(new_message, m, g.glyph)
                     /\ console' = IF g.msg = <<>> THEN console
                                   ELSE Append(console, g.msg)
                     /\ IF idx = Len(matches)
                        THEN /\ pc' = "gitmoji.rs:returned"
                             /\ UNCHANGED idx
                        ELSE /\ idx' = idx + 1
                             /\ pc' = "gitmoji.rs:get_gitmojis"
                     /\ UNCHANGED exit_status
    /\ UNCHANGED <<cli, config, mode, changes, request, requests, response, code,
                   commit_message, matches, commit_cmd, displayed, gateLog,
                   reasks, history>>

GitmojiNext ==
    \/ GitmojiReplaceGitmoji
    \/ GitmojiGetGitmojis

GitmojiSpec == GitmojiInit /\ [][GitmojiNext]_vars

----------------------------------------------------------------------------
(* get_commit_changes of git.rs, called once.  The main of this layout is
   not part of the sources: the Option returned is kept in changes, None or
   Some(lines), and the process goes on from there. *)

GitInit ==
    /\ cli \in [mode : {"commit"}, gitmoji : BOOLEAN, force : BOOLEAN,
                token_limit : TokenLimits]
    /\ config = [max_tokens |-> 1000]
    /\ mode = "Commit"
    /\ pc = "git.rs:get_commit_changes"
    /\ changes = None
    /\ request = None
    /\ requests = 0
    /\ response = None
    /\ code = None
    /\ commit_message = None
    /\ new_message = <<>>
    /\ matches = <<>>
    /\ idx = 0
    /\ commit_cmd = None
    /\ displayed = <<>>
    /\ gateLog = <<>>
    /\ reasks = 0
    /\ procs = <<>>
    /\ history = <<>>
    /\ console = <<>>
    /\ exit_status = None

\* git.rs:3-25: git diff --cached is launched; a failed launch ends the
\* process with 1, an empty diff returns None without a word, any other
\* returns its lines but the first.
GitGetCommitChanges ==
    /\ pc = "git.rs:get_commit_changes"
    /\ \E o \in [spawned : {TRUE}, stdout : DiffOutputs]
               \cup {[spawned |-> FALSE, stdout |-> <<>>]} :
          /\ procs' = Append(procs, Proc("git", <<"diff --cached">>, o))
          /\ IF ~o.spawned
             THEN /\ Exit(1, <<"Failed to execute git diff.">>)
                  /\ UNCHANGED changes
             ELSE LET r == git_get_commit_changes(o.stdout)
                  IN /\ changes' = IF r.some THEN Some(r.changes) ELSE None
                     /\ pc' = "git.rs:returned"
                     /\ UNCHANGED <<console, exit_status>>
    /\ UNCHANGED <<cli, config, mode, request, requests, response, code,
                   commit_message, new_message, matches, idx, commit_cmd,
                   displayed, gateLog, reasks, history>>

GitNext == GitGetCommitChanges

GitSpec == GitInit /\ [][GitNext]_vars

----------------------------------------------------------------------------
(* ChatCompletions::run of chat_gpt/completions.rs, called once on a
   ChatCompletions that `new` built from the Cli and the Config.  The main of
   this layout is not part of the sources: the prompt is the argument, and
   the string returned is kept as the artifact of the mode (code or
   commit_message). *)

\* What the configuration file can give as max_tokens.
ConfigMaxTokens == {100, 1000}

\* The system prompt of the ChatCompletions ("" until set_system_prompt is
\* called) and the user prompt handed to run.
CompletionsPrompts ==
    [system : {<<>>, <<"system prompt">>},
     user : {get_cmd_user_prompt(CliPrompt, OsHint),
             get_commit_user_prompt(<<"+ fix null check", "+ add test">>, None),
             get_commit_user_prompt(<<"+ fix null check">>, Some("null check"))}]

\* completions.rs:17-29: ChatCompletions::new has selected the mode
CompletionsInit ==
    /\ cli \in [mode : CliModes, gitmoji : {FALSE}, force : {FALSE},
                token_limit : TokenLimits]
    /\ config \in [max_tokens : ConfigMaxTokens]
    /\ mode = select_mode(cli.mode)
    /\ pc = "completions.rs:run"
    /\ changes = <<>>
    /\ request = None
    /\ requests = 0
    /\ response = None
    /\ code = None
    /\ commit_message = None
    /\ new_message = <<>>
    /\ matches = <<>>
    /\ idx = 0
    /\ commit_cmd = None
    /\ displayed = <<>>
    /\ gateLog = <<>>
    /\ reasks = 0
    /\ procs = <<>>
    /\ history = <<>>
    /\ console = <<>>
    /\ exit_status = None

\* completions.rs:35-55: the request is built and sent; send() fails when
\* the endpoint cannot be reached, and unwrap() panics.
CompletionsRun ==
    /\ pc = "completions.rs:run"
    /\ \E p \in CompletionsPrompts :
          request' = Some([system |-> p.system, user |-> p.user,
                           max_tokens |->
                               completions_max_tokens(cli.token_limit,
                                                      config.max_tokens)])
    /\ requests' = requests + 1
    /\ \/ /\ Exit(101, <<"panic: send">>)
          /\ UNCHANGED response
       \/ \E o \in Responses :
             /\ response' = Some(o)
             /\ pc' = "completions.rs:validate_response"
             /\ UNCHANGED <<console, exit_status>>
    /\ UNCHANGED <<cli, config, mode, changes, code, commit_message,
                   new_message, matches, idx, commit_cmd, displayed, gateLog,
                   reasks, procs, history>>

\* completions.rs:69-89, called at completions.rs:57
CompletionsValidateResponse ==
    /\ pc = "completions.rs:validate_response"
    /\ LET v == validate_response(Get(response))
       IN IF v.kind = "return"
          THEN /\ pc' = "completions.rs:extract"
               /\ UNCHANGED <<console, exit_status>>
          ELSE Exit(v.status, v.msg)
    /\ UNCHANGED <<cli, config, mode, changes, request, requests, response,
                   code, commit_message, new_message, matches, idx, commit_cmd,
                   displayed, gateLog, reasks, procs, history>>

\* completions.rs:58-66: choices[0].message.content, trimmed, is returned,
\* whatever the mode; unwrap() panics on a body without it.
CompletionsExtract ==
    /\ pc = "completions.rs:extract"
    /\ LET e == extract_commit_message(Get(response))
       IN IF e.kind = "ok"
          THEN /\ code' = IF mode = "Command" THEN Some(e.text) ELSE code
               /\ commit_message' = IF mode = "Commit" THEN Some(e.text)
                                     ELSE commit_message
               /\ pc' = "completions.rs:returned"
               /\ UNCHANGED <<console, exit_status>>
          ELSE /\ Exit(101, <<"panic: unwrap">>)
               /\ UNCHANGED <<code, commit_message>>
    /\ UNCHANGED <<cli, config, mode, changes, request, requests, response,
                   new_message, matches, idx, commit_cmd, displayed, gateLog,
                   reasks, procs, history>>

CompletionsNext ==
    \/ CompletionsRun
    \/ CompletionsValidateResponse
    \/ CompletionsExtract

CompletionsSpec == CompletionsInit /\ [][CompletionsNext]_vars

----------------------------------------------------------------------------
(* Properties *)

Range(q) == {q[i] : i \in 1..Len(q)}
Last(q) == q[Len(q)]
Answer(gate, answer) == [gate |-> gate, answer |-> answer]

\* the launches of bash -c <artifact>
RunProcs == {i \in 1..Len(procs) : procs[i].kind = "run"}
\* the run ended by a NO at its last gate
Declined == gateLog # <<>> /\ Last(gateLog).answer = "NO"

\* C1: the artifact reaches bash -c only after a YES at a gate of the same
\* run or with the force flag; in commit mode only after YES at all three
\* gates, whatever the force flag.  What bash gets is the artifact shown.
C1_ExecutionIsGated ==
    (pc = "run" \/ RunProcs # {}) =>
        /\ mode = "Command" =>
              /\ cli.force \/ Answer("run", "YES") \in Range(gateLog)
              /\ cli.force => gateLog = <<>>
              /\ \A i \in RunProcs : procs[i].arg = Get(code)
        /\ mode = "Commit" =>
              /\ gateLog = << Answer("accept", "YES"), Answer("generate", "YES"),
                              Answer("run_commit", "YES") >>
              /\ \A i \in RunProcs : procs[i].arg = Get(commit_cmd)

\* C1 witness: commit mode has run its commit command, the force flag unset
C1_Witness ==
    /\ pc \in Terminal
    /\ RunProcs # {}
    /\ mode = "Commit"
    /\ cli.force = FALSE

\* C2 (as claimed): a staged diff that leaves no change line for the prompt
\* ends commit mode with status 0 and no completion request
C2_NoChangesNoRequest ==
    ( /\ mode = "Commit"
      /\ procs # <<>>
      /\ procs[1].kind = "git"
      /\ procs[1].spawned
      /\ changes = <<>> ) =>
        /\ requests = 0
        /\ pc \in Terminal => exit_status = Some(0)

\* C3 (as claimed): after a NO at the first gate of commit mode the run has
\* launched no child process at all
C3_DeclineMeansNoSubprocess ==
    (mode = "Commit" /\ Answer("accept", "NO") \in Range(gateLog)) =>
        procs = <<>>

\* C3 (amended): after a NO at the first gate of commit mode the artifact has
\* not reached the shell and the run is over: its only child processes are
\* the git diff and, with the gitmoji flag, one lookup per matched tag, all
\* launched before the gate
C3_DeclineMeansNoExecution ==
    (mode = "Commit" /\ Answer("accept", "NO") \in Range(gateLog)) =>
        /\ pc = "Done"
        /\ gateLog = << Answer("accept", "NO") >>
        /\ RunProcs = {}
        /\ procs[1].kind = "git"
        /\ \A i \in 2..Len(procs) : procs[i].kind = "gitmoji" /\ cli.gitmoji
        /\ Len(procs) = 1 + (IF cli.gitmoji THEN Len(matches) ELSE 0)

\* C3 witness: the first gate was declined after lookups had been launched
C3_Witness ==
    /\ mode = "Commit"
    /\ gateLog = << Answer("accept", "NO") >>
    /\ Len(procs) >= 3

\* C4: a NO at a gate ends the run Done with status 0; nothing follows it:
\* no later gate, no commit command assembled or shown unless it was before
\* the NO, no history entry, no shell
C4_DeclineEndsRun ==
    Declined =>
        /\ pc = "Done"
        /\ exit_status = Some(0)
        /\ reasks = 0
        /\ RunProcs = {}
        /\ history = <<>>
        /\ console = <<>>
        /\ \A i \in 1..(Len(gateLog) - 1) : gateLog[i].answer = "YES"
        /\ mode = "Command" =>
              /\ gateLog = << Answer("run", "NO") >>
              /\ displayed = << Get(code) >>
        /\ mode = "Commit" =>
              /\ Last(gateLog).gate =
                    << "accept", "generate", "run_commit" >>[Len(gateLog)]
              /\ Last(gateLog).gate \in {"accept", "generate"} =>
                    /\ commit_cmd = None
                    /\ displayed = << Get(commit_message) >>
              /\ Last(gateLog).gate = "run_commit" =>
                    displayed = << Get(commit_message), Get(commit_cmd) >>

\* C4 witness: each gate has been declined in some run; here the second
C4_Witness ==
    /\ Declined
    /\ Last(gateLog).gate = "generate"

\* the response has been through validate_response
Validated == response # None /\ pc # "validate_response"
NoArtifact ==
    /\ code = None
    /\ commit_message = None
    /\ commit_cmd = None
    /\ displayed = <<>>
    /\ gateLog = <<>>
    /\ RunProcs = {}
    /\ history = <<>>

\* C5: a 4xx response that provides error.message ends the run Failed with
\* status 1 and exactly that text surfaced; a 5xx response ends it Failed
\* with status 1 and the numeric status surfaced; no artifact is shown, no
\* gate asked, no shell launched
C5_ApiErrorIsFatal ==
    Validated =>
        LET r == Get(response)
        IN /\ (r.status \in 400..499 /\ r.kind = "error") =>
                 /\ pc = "Failed"
                 /\ exit_status = Some(1)
                 /\ Last(console) = <<"API error: \"">> \o r.payload \o <<"\"">>
                 /\ NoArtifact
           /\ r.status \in 500..599 =>
                 /\ pc = "Failed"
                 /\ exit_status = Some(1)
                 /\ Len(Last(console)) = 4
                 /\ Last(console)[2] = ToString(r.status)
                 /\ NoArtifact

\* C5 witness: a 503 has been reported
C5_Witness ==
    /\ Validated
    /\ Get(response).status = 503
    /\ pc = "Failed"

\* C6 (as claimed): a run ends with status 0 or 1, 0 exactly when it ends
\* Done and 1 for every fatal condition, a request that cannot be sent
\* included
C6_ExitStatusIsZeroOrOne ==
    pc \in Terminal =>
        /\ exit_status \in {Some(0), Some(1)}
        /\ exit_status = Some(0) <=> pc = "Done"

\* C7: no retry: a request is sent only when none has been sent, so a run
\* sends at most one; after an error outcome the run is Failed, with that one
\* request and nothing made of its response
C7_NoRetry ==
    /\ requests <= 1
    /\ pc = "get_ai_response" => requests = 0 /\ response = None
    /\ pc = "validate_response" => requests = 1 /\ response # None
    /\ requests = 0 <=> request = None
    /\ (Validated /\ Get(response).status \in 400..599) =>
          /\ pc = "Failed"
          /\ requests = 1
          /\ NoArtifact

\* C7 witness: a client error has ended the run after its one request
C7_Witness ==
    /\ Validated
    /\ Get(response).status = 401
    /\ pc = "Failed"
    /\ requests = 1

\* the lookups of the tag resolver
Lookups == {i \in 1..Len(procs) : procs[i].kind = "gitmoji"}

\* C8 (as claimed): a tag is looked up once, however often it occurs
C8_OneLookupPerTag ==
    \A i, j \in Lookups : procs[i].arg = procs[j].arg => i = j

RECURSIVE CountFrom(_, _, _)
CountFrom(s, pat, i) ==
    IF i > Len(s) THEN 0
    ELSE IF OccursAt(s, pat, i) THEN 1 + CountFrom(s, pat, i + Len(pat))
         ELSE CountFrom(s, pat, i + 1)
\* the number of non-overlapping occurrences of pat in s
Count(s, pat) == CountFrom(s, pat, 1)

\* C9 (as claimed): a tag that occurs twice and resolves has both occurrences
\* replaced by the one glyph; a lookup that yields no glyph never ends the run
C9_UnresolvedTagIsNotFatal ==
    /\ ( /\ pc = "display"
         /\ Len(matches) = 2
         /\ matches[1].str = matches[2].str
         /\ trim(procs[2].stdout) \in {<<"G">>, <<"H">>} ) =>
           /\ Count(Get(commit_message), matches[1].str) = 0
           /\ Count(Get(commit_message), trim(procs[2].stdout)) = 2
    /\ \A i \in Lookups :
          (procs[i].spawned /\ trim(procs[i].stdout) = <<>>) =>
              ~(pc = "Failed" /\ i = Len(procs))

\* the orders a list of matches can be processed in
Perms(ms) ==
    LET n == Len(ms)
        bij == {f \in [1..n -> 1..n] : \A i, j \in 1..n : f[i] = f[j] => i = j}
    IN {[i \in 1..n |-> ms[f[i]]] : f \in bij}
\* the resolvers of the tags of a list of matches
Resolvers(ms) == [{ms[i].str : i \in 1..Len(ms)} -> ResolverOutcomes]
\* the glyph does not match the tag pattern
NotTagShaped(g) == find_iter(g) = <<>>
\* the glyph has neither a colon nor a word character
CleanGlyph(g) == \A i \in 1..Len(g) : g[i] \notin WordChars \cup {":"}
\* no two occurrences of the tag pattern in s share a colon
NoSharedColon(s) ==
    \A i \in 1..Len(s) : MatchEnd(s, i) > 0 => MatchEnd(s, MatchEnd(s, i)) = 0
\* the resolver the lookups of this run have shown, if they agree per tag
ObservedAgree == \A i, j \in Lookups :
    procs[i].arg = procs[j].arg => procs[i].stdout = procs[j].stdout
Observed ==
    [t \in {procs[i].arg : i \in Lookups} |->
        LET i == CHOOSE k \in Lookups : procs[k].arg = t
        IN [spawned |-> procs[i].spawned, stdout |-> procs[i].stdout]]

\* C10 (as claimed): with glyphs that do not match the tag pattern, every
\* order of processing the matched tags gives the same text
C10_OrderIndependent ==
    pc = "replace_gitmoji" =>
        LET msg == Get(commit_message)
            ms == find_iter(msg)
        IN \A src \in {"main.rs", "gitmoji.rs"} : \A R \in Resolvers(ms) :
              (\A t \in DOMAIN R : NotTagShaped(trim(R[t].stdout))) =>
                  \A p \in Perms(ms) :
                      replace_loop(src, msg, p, R) = replace_loop(src, msg, ms, R)

\* C10 (amended): with glyphs that have neither a colon nor a word character,
\* and a text in which no two tag occurrences share a colon, every order of
\* processing the matched tags gives the same text; and that is the text the
\* run arrives at
C10_OrderIndependentWhenDisjoint ==
    /\ pc = "replace_gitmoji" =>
          LET msg == Get(commit_message)
              ms == find_iter(msg)
          IN NoSharedColon(msg) =>
                \A src \in {"main.rs", "gitmoji.rs"} : \A R \in Resolvers(ms) :
                    (\A t \in DOMAIN R : CleanGlyph(trim(R[t].stdout))) =>
                        \A p \in Perms(ms) :
                            replace_loop(src, msg, p, R)
                                = replace_loop(src, msg, ms, R)
    /\ ( /\ pc = "display"
         /\ matches # <<>>
         /\ ObservedAgree
         /\ NoSharedColon(trim(Get(response).payload))
         /\ \A i \in Lookups : CleanGlyph(trim(procs[i].stdout)) ) =>
           \A p \in Perms(matches) :
               replace_loop("main.rs", trim(Get(response).payload), p, Observed)
                   = [kind |-> "ok", text |-> Get(commit_message)]

\* C10 witness: two different tags of a text have been replaced by their
\* glyphs, no tag sharing a colon with another
C10_Witness ==
    /\ pc = "display"
    /\ Len(matches) >= 2
    /\ matches[1].str # matches[2].str
    /\ NoSharedColon(trim(Get(response).payload))
    /\ Count(Get(commit_message), <<"G">>) = 1
    /\ Count(Get(commit_message), <<"H">>) = 1
    /\ find_iter(Get(commit_message)) = <<>>

----------------------------------------------------------------------------
(* C11 *)

\* A tag is a colon, one or more word characters, a colon.
HasTag(s) ==
    \E i \in 1..Len(s), j \in 1..Len(s) :
        /\ j > i + 1
        /\ s[i] = ":" /\ s[j] = ":"
        /\ \A k \in (i + 1)..(j - 1) : s[k] \in WordChars

\* The message as the response gave it, before any substitution.
Generated == trim(Get(response).payload)

\* C11: tag substitution on a message without tags is the identity and
\* makes no external call: with the gitmoji flag set, a generated message in
\* which nothing has the shape :word: stays the commit message as it is,
\* and no lookup subprocess is ever launched for it
C11_NoTagsIsIdentity ==
    (mode = "Commit" /\ cli.gitmoji /\ commit_message # None
       /\ ~HasTag(Generated))
    => /\ commit_message = Some(Generated)
       /\ Lookups = {}
       /\ (pc \notin {"extract", "replace_gitmoji"} => matches = <<>>)

\* C11 witness: replace_gitmoji has returned a message that has colons and
\* word characters in it but no tag, and the message is about to be shown
C11_Witness ==
    /\ mode = "Commit" /\ cli.gitmoji /\ pc = "display"
    /\ ~HasTag(Generated)
    /\ \E i \in 1..(Len(Generated) - 1) :
          Generated[i] = ":" /\ Generated[i + 1] \in WordChars
    /\ commit_message = Some(Generated)

----------------------------------------------------------------------------
(* C12 *)

\* The lookups that had no resolver to ask: bash could not be launched, or
\* it ran and there was no gitmoji program.
Unavailable ==
    {i \in DOMAIN procs : /\ procs[i].kind = "gitmoji"
                          /\ (~procs[i].spawned \/ ~procs[i].available)}

\* C12: a lookup that cannot be executed because the resolver is not
\* available ends the run Failed with exit status 1: it is the last thing
\* the run does, and is never taken for a tag without glyph after which the
\* substitution goes on or returns
C12_UnavailableResolverIsFatal ==
    \A i \in Unavailable :
        /\ i = Len(procs)
        /\ pc = "Failed"
        /\ exit_status = Some(1)

----------------------------------------------------------------------------
(* C13 *)

\* C13: the shell's outcome is reported alike in both modes: a child that
\* could not be launched or ended with a non-zero status ends the run Failed
\* with exit status 1; a zero status ends it Done with exit status 0, the
\* captured stdout of the child emitted after the success message
C13_ShellOutcomeReportedAlike ==
    \A i \in RunProcs :
        LET p == procs[i]
        IN IF p.spawned /\ p.success
           THEN /\ pc = "Done"
                /\ exit_status = Some(0)
                /\ SubSeq(Last(console), 2, Len(Last(console))) = p.stdout
           ELSE /\ pc = "Failed"
                /\ exit_status = Some(1)

----------------------------------------------------------------------------
(* C14 *)

\* The glyph the lookup of the k-th match printed (the lookups follow the
\* git diff, one child process each, in the order of the matches).
GlyphOf(k) == trim(procs[1 + k].stdout)

\* Some matched tag was replaced while another matched tag is still in
\* the message as it was.
HalfSubstituted ==
    /\ \E j \in 1..Len(matches) : GlyphOf(j) # <<>>
    /\ \E k \in 1..Len(matches) :
          /\ GlyphOf(k) = <<>>
          /\ Count(Get(commit_message), matches[k].str) > 0

\* The commit command has reached the shell with the gitmoji flag set.
ExecutedWithGitmoji == mode = "Commit" /\ cli.gitmoji /\ RunProcs # {}

\* C14 as stated: the message of a commit command that reaches the shell
\* with tag substitution requested never has some matched tags replaced and
\* others left verbatim
C14_NeverHalfSubstituted ==
    ExecutedWithGitmoji => ~HalfSubstituted

\* The message after the turns k.. of the loop, by what the lookups printed:
\* a glyph replaces its tag everywhere, white space alone leaves it.
RECURSIVE SubstitutedFrom(_, _)
SubstitutedFrom(msg, k) ==
    IF k > Len(matches) THEN msg
    ELSE SubstitutedFrom(IF GlyphOf(k) = <<>> THEN msg
                         ELSE replace(msg, matches[k].str, GlyphOf(k)),
                         k + 1)

\* C14 amended: no message whose substitution was cut short is executed:
\* when the commit command reaches the shell with tag substitution
\* requested, every matched tag has had its lookup, none of them fatal, and
\* the message is the generated one with each tag replaced by its glyph or,
\* where the lookup printed white space only, left verbatim
C14_SubstitutionRanToItsEnd ==
    ExecutedWithGitmoji =>
        /\ Cardinality(Lookups) = Len(matches)
        /\ \A i \in Lookups : /\ i <= 1 + Len(matches)
                               /\ procs[i].spawned
                               /\ procs[i].stdout # <<>>
                               /\ procs[i].arg = matches[i - 1].str
        /\ Get(commit_message) = SubstitutedFrom(Generated, 1)
        /\ \A i \in RunProcs :
              procs[i].arg = <<"git commit -m '">> \o Get(commit_message) \o <<"'">>

\* C14 witness: a commit command has been run whose message has one of two
\* matched tags replaced and the other left as it was
C14_Witness ==
    /\ ExecutedWithGitmoji
    /\ Len(matches) = 2
    /\ HalfSubstituted

----------------------------------------------------------------------------
(* C15 *)

\* C15 as stated: the cap of the request is the operator's --token-limit
\* when there is one, and otherwise the default of the mode, the default of
\* commit mode being strictly larger than the default of command mode
C15_CommitDefaultIsLarger ==
    request # None =>
        LET cap == Get(request).max_tokens
        IN /\ cli.token_limit # None => cap = Get(cli.token_limit)
           /\ (cli.token_limit = None /\ mode = "Command") => cap = MAX_TOKENS
           /\ (cli.token_limit = None /\ mode = "Commit") => cap > MAX_TOKENS

\* C15 amended: the cap of the request is the operator's --token-limit when
\* there is one, and otherwise the one default MAX_TOKENS, in commit mode as
\* in command mode
C15_OneDefaultForBothModes ==
    request # None =>
        LET cap == Get(request).max_tokens
        IN /\ cli.token_limit # None => cap = Get(cli.token_limit)
           /\ cli.token_limit = None => cap = MAX_TOKENS
           /\ mode \in {"Commit", "Command"}

\* C15 witness: a commit-mode request has gone out without --token-limit,
\* capped at the default that command mode has too
C15_Witness ==
    /\ mode = "Commit"
    /\ cli.token_limit = None
    /\ request # None
    /\ Get(request).max_tokens = MAX_TOKENS

----------------------------------------------------------------------------
(* C16 *)

\* C16: in command mode, once a 2xx response carrying a message content has
\* been taken in, the command is that content trimmed and nothing else: it
\* is what is shown before the gate and what is handed to the shell
C16_CommandIsTrimmedContent ==
    (/\ mode = "Command"
     /\ response # None
     /\ Get(response).status = 200
     /\ Get(response).kind = "chat"
     /\ pc \notin {"validate_response", "extract"})
    => /\ code = Some(trim(Get(response).payload))
       /\ \A i \in DOMAIN displayed : displayed[i] = trim(Get(response).payload)
       /\ \A i \in RunProcs : procs[i].arg = trim(Get(response).payload)
       /\ exit_status \in {None, Some(0), Some(1)}

----------------------------------------------------------------------------
(* C17 *)

\* What `git diff --cached` printed in this run, as lines.
StagedDiff == procs[1].stdout

\* C17 as stated: the user message of commit mode is the opening sentence
\* followed by every line of the staged diff and a newline each, in order,
\* none dropped, duplicated or moved
C17_EveryDiffLine ==
    (mode = "Commit" /\ request # None) =>
        LET u == Get(request).user
        IN /\ Len(u) = 1 + 2 * Len(StagedDiff)
           /\ u[1] = "Provide a commit message for the following changes:\n"
           /\ \A i \in 1..Len(StagedDiff) :
                 u[2 * i] = StagedDiff[i] /\ u[2 * i + 1] = "\n"

\* C17 amended: the user message of commit mode is the opening sentence
\* followed by every line of the staged diff but the first, and a newline
\* each, in order, none of these dropped, duplicated or moved; the first
\* line of the diff is not in it.  The prompt of prompts.rs without a hint
\* and the change lines of git.rs are the same.
C17_EveryDiffLineButTheFirst ==
    (mode = "Commit" /\ request # None) =>
        LET u == Get(request).user
            n == Len(StagedDiff) - 1
        IN /\ Len(u) = 1 + 2 * n
           /\ u[1] = "Provide a commit message for the following changes:\n"
           /\ \A i \in 1..n :
                 u[2 * i] = StagedDiff[i + 1] /\ u[2 * i + 1] = "\n"
           /\ u = get_commit_user_prompt(
                     git_get_commit_changes(StagedDiff).changes, None)

\* C17 witness: a commit-mode request has gone out for a staged diff of a
\* header and two change lines
C17_Witness ==
    /\ mode = "Commit"
    /\ request # None
    /\ Len(StagedDiff) = 3
    /\ Len(Get(request).user) = 5

----------------------------------------------------------------------------
(* C18 *)

\* C18: in commit mode the message that reaches the shell is the message
\* that was reviewed: tags are substituted only with the gitmoji flag set and
\* before anything is shown or asked; the message shown stays the commit
\* message to the end of the run; the command shown before the third gate
\* is git commit -m '<message shown>'; and the command run is the command
\* shown, character for character
C18_ExecutedIsReviewed ==
    mode = "Commit" =>
        /\ ~cli.gitmoji => Lookups = {}
        /\ (~cli.gitmoji /\ commit_message # None)
             => commit_message = Some(Generated)
        /\ pc \in {"extract", "replace_gitmoji", "get_gitmojis"}
             => displayed = <<>> /\ gateLog = <<>>
        /\ \A i \in Lookups, j \in RunProcs : i < j
        /\ Len(displayed) >= 1 => displayed[1] = Get(commit_message)
        /\ Len(displayed) >= 2
             => /\ Len(gateLog) >= 2
                /\ displayed[2] = <<"git commit -m '">> \o displayed[1] \o <<"'">>
                /\ commit_cmd = Some(displayed[2])
        /\ \A j \in RunProcs :
              /\ Len(displayed) = 2
              /\ Len(gateLog) = 3
              /\ procs[j].arg = displayed[2]

\* C18 witness: a commit whose message had a tag replaced has been run
\* after the message and the command were shown
C18_Witness ==
    /\ mode = "Commit" /\ cli.gitmoji
    /\ RunProcs # {}
    /\ Len(displayed) = 2
    /\ commit_message # Some(Generated)
    /\ \E j \in RunProcs : procs[j].arg = displayed[2]

----------------------------------------------------------------------------
(* C19 *)

\* What only the commit workflow leaves behind, and what only the command
\* workflow does.
CommitTraces ==
    \/ changes # <<>> \/ commit_message # None \/ commit_cmd # None
    \/ \E i \in DOMAIN procs : procs[i].kind \in {"git", "gitmoji"}
    \/ \E i \in DOMAIN gateLog :
          gateLog[i].gate \in {"accept", "generate", "run_commit"}

CommandTraces ==
    \/ code # None \/ history # <<>>
    \/ \E i \in DOMAIN gateLog : gateLog[i].gate = "run"

\* C19: a run has one mode, selected at startup from the mode string and
\* the same ever after: Commit when the string is exactly "commit", Command
\* for "command" and for every other string, the default included; and only
\* the workflow of that mode runs
C19_OneModeOneWorkflow ==
    /\ pc = "main" => mode = "Unset" /\ ~CommitTraces /\ ~CommandTraces
    /\ pc # "main" =>
          /\ cli.mode = "commit" => mode = "Commit"
          /\ cli.mode # "commit" => mode = "Command"
          /\ mode = "Commit" => ~CommandTraces
          /\ mode = "Command" => ~CommitTraces
          /\ (mode = "Commit" /\ pc # "get_commit_changes")
               => procs # <<>> /\ procs[1].kind = "git"

\* C19 witness: a run started with the mode string "Commit", which is not
\* exactly "commit", has gone through the command workflow to its end
C19_Witness ==
    /\ cli.mode = "Commit"
    /\ mode = "Command"
    /\ pc = "Done"
    /\ history # <<>>
    /\ RunProcs # {}

----------------------------------------------------------------------------
(* C20 *)

\* The gates that have been answered, in the order they were answered.
GatesAnswered == [i \in DOMAIN gateLog |-> gateLog[i].gate]

IsPrefix(p, q) == Len(p) <= Len(q) /\ p = SubSeq(q, 1, Len(p))

\* At most one completion request and one executed artifact in a run, the
\* shell run being the last child process; the gates one after another in
\* their order, each at most once; nothing left to do at the end.
OneAtATime ==
    /\ requests <= 1
    /\ Cardinality(RunProcs) <= 1
    /\ \A i \in RunProcs : i = Len(procs) /\ pc \in Terminal
    /\ IF mode = "Commit"
       THEN IsPrefix(GatesAnswered, <<"accept", "generate", "run_commit">>)
       ELSE IsPrefix(GatesAnswered, <<"run">>)
    /\ (reasks > 0 => pc \in {"confirm_run", "gate_accept", "gate_generate",
                              "gate_run_commit"})
    /\ (pc \in Terminal <=> exit_status # None)

\* C20: every run comes to Done or Failed, given that the remote call and
\* the child processes return and the operator ends up giving an acceptable
\* answer at each gate; all along there is at most one completion request
\* and one shell run, and the gates come strictly one after another, each
\* at most once
C20_Terminates ==
    /\ []OneAtATime
    /\ <>(pc \in Terminal)

\* C20 witness: a commit run has ended after its three gates were answered
\* yes in turn and its one shell run returned
C20_Witness ==
    /\ mode = "Commit"
    /\ pc \in Terminal
    /\ GatesAnswered = <<"accept", "generate", "run_commit">>
    /\ Cardinality(RunProcs) = 1
    /\ requests = 1

----------------------------------------------------------------------------
(* get_commit_changes of git.rs *)

\* get_commit_changes of git.rs never ends the process for want of staged
\* changes: it exits only when git cannot be launched, and returns None,
\* with nothing printed, for an empty diff.
GitReturnsNoneOnEmptyDiff ==
    pc # "git.rs:get_commit_changes" =>
        LET p == procs[1]
        IN /\ ~p.spawned <=> (pc = "Failed" /\ exit_status = Some(1))
           /\ p.spawned =>
                 /\ pc = "git.rs:returned"
                 /\ console = <<>>
                 /\ exit_status = None
                 /\ changes = IF p.stdout = <<>> THEN None
                               ELSE Some(Tail(p.stdout))

----------------------------------------------------------------------------
(* ChatCompletions::run *)

\* The cap ChatCompletions::run sends is the operator's --token-limit when
\* there is one and the max_tokens of the configuration otherwise, whatever
\* the mode.
CompletionsCapIsOverrideOrConfig ==
    request # None =>
        Get(request).max_tokens =
            IF cli.token_limit = None THEN config.max_tokens
            ELSE Get(cli.token_limit)

\* What ChatCompletions::run returns is the message content of a 2xx
\* response, trimmed, in command mode as in commit mode.
CompletionsReturnsTrimmedContent ==
    pc = "completions.rs:returned" =>
        /\ Get(response).status \notin 400..599
        /\ Get(response).kind = "chat"
        /\ (IF mode = "Command" THEN code ELSE commit_message)
             = Some(trim(Get(response).payload))

====
